---- MODULE Spec2Model ----
(***************************************************************************)
(* A model of crates/bevy_cosmic_edit/src/lib.rs: the four per-frame       *)
(* systems of CosmicEditPlugin (cosmic_edit_bevy_events,                   *)
(* cosmic_edit_redraw_buffer, active_editor_changed, scale_factor_changed) *)
(* working on a population of CosmicEditImage entities, the ActiveEditor   *)
(* resource and the host's per-frame input.                                *)
(*                                                                         *)
(* Lengths (font size, line height, buffer size) are kept in half pixels,  *)
(* so that a scale factor of 1.5 and the truncation of the rasterizer      *)
(* (`as i32`) are exact: a value v of the program is the integer 2*v here. *)
(* A scale factor s of the program is the integer 2*s.                     *)
(***************************************************************************)
EXTENDS Integers, Sequences, FiniteSets, TLC

\* ------------------------------------------------------------------ bounds
\* most keys that go down in one frame
MaxKeys == 1
\* most ReceivedCharacter events the host sends in one frame
MaxBatch == 1
\* most ReceivedCharacter events the host sends in a run (Events::event_count)
MaxEvents == 1
\* most lines a buffer grows to (Return is not offered beyond it)
MaxLines == 2
\* longest side of an image draw_pixel is called on, in pixels
MaxSide == 2
\* most calls of draw_pixel on one image
MaxCalls == 2

\* ------------------------------------------------------- the population
\* entities that carry a CosmicEditImage component
Editors == {1, 2}
\* an entity without a CosmicEditImage component (the query's get_mut fails)
Stranger == 3
Entities == Editors \cup {Stranger}
\* Option::None of an Option<Entity>
None == 0
\* Option::None of an Option<Cursor>
NoCursor == [line |-> -1, index |-> -1, affinity |-> "Before"]
\* Option::None of an Option<Vec2> or Option<(f32, f32)>
NoPoint == [x |-> -1, y |-> -1]
\* a UiImage the system has not drawn yet
NoImage == [w |-> 0, h |-> 0]

\* characters the host sends as ReceivedCharacter
Chars == {"a"}

\* scale factors of the primary window, in halves: 1.0, 1.5, 2.0
Scales == {2, 3, 4}

\* Node::size() of each editor's UI node, in pixels (the host's layout);
\* entity 2 is a node that is laid out with no extent (Display::None)
NodeSize(e) == IF e = 1 THEN [x |-> 5, y |-> 3] ELSE [x |-> 0, y |-> 0]

\* CosmicEditImage::font_size and ::font_line_height, in pixels
FontSize(e) == IF e = 1 THEN 18 ELSE 9
FontLineHeight(e) == IF e = 1 THEN 20 ELSE 10

\* ------------------------------------------------------------ text, cursor
Min(a, b) == IF a < b THEN a ELSE b
Max(a, b) == IF a > b THEN a ELSE b

\* a cursor of cosmic_text: line (0-based), byte index, affinity; the text is
\* left-to-right and unwrapped, so the affinity stays Affinity::default()
Cur(l, i) == [line |-> l, index |-> i, affinity |-> "Before"]

\* the text of line number l (0-based) of a buffer
LineAt(lines, l) == lines[l + 1]

\* the end of the buffer, where Action::BufferEnd puts the cursor
EndOf(lines) == Cur(Len(lines) - 1, Len(lines[Len(lines)]))

\* every cursor position of a buffer (Buffer::hit answers one of them)
Positions(lines) ==
    UNION {{Cur(l, i) : i \in 0..Len(LineAt(lines, l))} : l \in 0..(Len(lines) - 1)}

\* a cursor addresses a position of the buffer
ValidCursor(lines, c) ==
    /\ c.line >= 0 /\ c.line < Len(lines)
    /\ c.index >= 0 /\ c.index <= Len(LineAt(lines, c.line))

\* cursor positions ordered as (line, index)
Before(c, d) == c.line < d.line \/ (c.line = d.line /\ c.index <= d.index)

\* characters from..to of one line (1-based, inclusive; empty if from > to)
Slice(s, from, to) == [k \in 1..(to - from + 1) |-> s[from + k - 1]]

\* remove the text between the positions a <= b of the buffer
DeleteRange(lines, a, b) ==
    LET joined == Slice(LineAt(lines, a.line), 1, a.index)
                  \o Slice(LineAt(lines, b.line), b.index + 1, Len(LineAt(lines, b.line)))
        gone == b.line - a.line
    IN  [k \in 1..(Len(lines) - gone) |->
            IF k < a.line + 1 THEN lines[k]
            ELSE IF k = a.line + 1 THEN joined
            ELSE lines[k + gone]]

\* replace line number l by the lines in seq
Splice(lines, l, seq) ==
    Slice(lines, 1, l) \o seq \o Slice(lines, l + 2, Len(lines))

\* ------------------------------------------- cosmic_text::Editor, the text
\* The text state of an Editor is t = [lines, cursor, select]; each operator
\* below is one Action of cosmic_text as the systems request it.

\* Editor::delete_selection: removes the selected range, cursor to its start
DeleteSelection(t) ==
    IF t.select = NoCursor THEN t
    ELSE LET a == IF Before(t.select, t.cursor) THEN t.select ELSE t.cursor
             b == IF Before(t.select, t.cursor) THEN t.cursor ELSE t.select
         IN  [lines |-> DeleteRange(t.lines, a, b),
              cursor |-> Cur(a.line, a.index), select |-> NoCursor]

\* Action::Left on left-to-right text
ActionLeft(t) ==
    IF t.cursor.index > 0
    THEN [t EXCEPT !.cursor = Cur(t.cursor.line, t.cursor.index - 1)]
    ELSE IF t.cursor.line > 0
    THEN [t EXCEPT !.cursor =
            Cur(t.cursor.line - 1, Len(LineAt(t.lines, t.cursor.line - 1)))]
    ELSE t

\* Action::Right on left-to-right text
ActionRight(t) ==
    IF t.cursor.index < Len(LineAt(t.lines, t.cursor.line))
    THEN [t EXCEPT !.cursor = Cur(t.cursor.line, t.cursor.index + 1)]
    ELSE IF t.cursor.line + 1 < Len(t.lines)
    THEN [t EXCEPT !.cursor = Cur(t.cursor.line + 1, 0)]
    ELSE t

\* Action::Up: one row up, the column kept as far as the row reaches
ActionUp(t) ==
    IF t.cursor.line > 0
    THEN [t EXCEPT !.cursor =
            Cur(t.cursor.line - 1,
                Min(t.cursor.index, Len(LineAt(t.lines, t.cursor.line - 1))))]
    ELSE t

\* Action::Down: one row down, the column kept as far as the row reaches
ActionDown(t) ==
    IF t.cursor.line + 1 < Len(t.lines)
    THEN [t EXCEPT !.cursor =
            Cur(t.cursor.line + 1,
                Min(t.cursor.index, Len(LineAt(t.lines, t.cursor.line + 1))))]
    ELSE t

\* Action::Backspace: the selection, else the character before the cursor,
\* else the line break before the cursor
ActionBackspace(t) ==
    IF t.select # NoCursor THEN DeleteSelection(t)
    ELSE IF t.cursor.index > 0
    THEN [t EXCEPT
            !.lines = DeleteRange(t.lines, Cur(t.cursor.line, t.cursor.index - 1), t.cursor),
            !.cursor = Cur(t.cursor.line, t.cursor.index - 1)]
    ELSE IF t.cursor.line > 0
    THEN LET up == Cur(t.cursor.line - 1, Len(LineAt(t.lines, t.cursor.line - 1)))
         IN  [t EXCEPT !.lines = DeleteRange(t.lines, up, t.cursor), !.cursor = up]
    ELSE t

\* Action::Delete: the selection, else the character after the cursor, else
\* the line break after the cursor
ActionDelete(t) ==
    IF t.select # NoCursor THEN DeleteSelection(t)
    ELSE IF t.cursor.index < Len(LineAt(t.lines, t.cursor.line))
    THEN [t EXCEPT
            !.lines = DeleteRange(t.lines, t.cursor, Cur(t.cursor.line, t.cursor.index + 1))]
    ELSE IF t.cursor.line + 1 < Len(t.lines)
    THEN [t EXCEPT !.lines = DeleteRange(t.lines, t.cursor, Cur(t.cursor.line + 1, 0))]
    ELSE t

\* Action::Enter: the selection is replaced by a line break
ActionEnter(t) ==
    LET d == DeleteSelection(t)
        line == LineAt(d.lines, d.cursor.line)
        head == Slice(line, 1, d.cursor.index)
        tail == Slice(line, d.cursor.index + 1, Len(line))
    IN  [lines |-> Splice(d.lines, d.cursor.line, <<head, tail>>),
         cursor |-> Cur(d.cursor.line + 1, 0), select |-> NoCursor]

\* Action::Insert(ch): '\n' is Action::Enter; another character replaces the
\* selection and the cursor moves behind it
ActionInsert(t, ch) ==
    IF ch = "\n" THEN ActionEnter(t)
    ELSE LET d == DeleteSelection(t)
             line == LineAt(d.lines, d.cursor.line)
             new == Slice(line, 1, d.cursor.index) \o <<ch>>
                    \o Slice(line, d.cursor.index + 1, Len(line))
         IN  [lines |-> Splice(d.lines, d.cursor.line, <<new>>),
              cursor |-> Cur(d.cursor.line, d.cursor.index + 1), select |-> NoCursor]

\* Action::Escape: the selection is dropped, the cursor stays
ActionEscape(t) == [t EXCEPT !.select = NoCursor]

\* Action::BufferEnd
ActionBufferEnd(t) == [t EXCEPT !.cursor = EndOf(t.lines)]

\* Editor::set_select_opt
SetSelectOpt(t, sel) == [t EXCEPT !.select = sel]

\* byte indices at which a word of the line starts / ends (words are runs of
\* characters other than the space)
WordStarts(line) ==
    {i \in 0..(Len(line) - 1) : line[i + 1] # " " /\ (i = 0 \/ line[i] = " ")}
WordEnds(line) ==
    {i \in 1..Len(line) : line[i] # " " /\ (i = Len(line) \/ line[i + 1] = " ")}

\* the largest / smallest member of a non-empty set of numbers
Largest(S) == CHOOSE m \in S : \A k \in S : k <= m
Smallest(S) == CHOOSE m \in S : \A k \in S : m <= k

\* Action::PreviousWord: the start of the word before the cursor, else the
\* end of the line above
ActionPreviousWord(t) ==
    IF t.cursor.index > 0
    THEN LET s == {i \in WordStarts(LineAt(t.lines, t.cursor.line)) : i < t.cursor.index}
         IN  [t EXCEPT !.cursor =
                Cur(t.cursor.line, IF s = {} THEN 0 ELSE Largest(s))]
    ELSE IF t.cursor.line > 0
    THEN [t EXCEPT !.cursor =
            Cur(t.cursor.line - 1, Len(LineAt(t.lines, t.cursor.line - 1)))]
    ELSE t

\* Action::NextWord: the end of the word after the cursor, else the start of
\* the line below
ActionNextWord(t) ==
    IF t.cursor.index < Len(LineAt(t.lines, t.cursor.line))
    THEN LET s == {i \in WordEnds(LineAt(t.lines, t.cursor.line)) : i > t.cursor.index}
         IN  IF s = {} THEN t
             ELSE [t EXCEPT !.cursor = Cur(t.cursor.line, Smallest(s))]
    ELSE IF t.cursor.line + 1 < Len(t.lines)
    THEN [t EXCEPT !.cursor = Cur(t.cursor.line + 1, 0)]
    ELSE t

\* Buffer::hit for the point of a click or drag: the position the host's
\* point stands for if the buffer has it, else no hit
Hit(lines, hit) == IF hit \in Positions(lines) THEN hit ELSE NoCursor

\* Action::Click { x, y }: the selection is dropped and the cursor goes where
\* Buffer::hit answers, if it answers
ActionClick(t, hit) ==
    [t EXCEPT !.select = NoCursor,
              !.cursor = IF Hit(t.lines, hit) = NoCursor THEN @ ELSE hit]

\* Action::Drag { x, y }: the selection is anchored at the cursor if there is
\* none; the cursor goes where Buffer::hit answers, if it answers
ActionDrag(t, hit) ==
    [t EXCEPT !.select = IF @ = NoCursor THEN t.cursor ELSE @,
              !.cursor = IF Hit(t.lines, hit) = NoCursor THEN @ ELSE hit]

\* one Action (or set_select_opt call) applied to the text of an editor
ApplyAction(t, a) ==
    CASE a.kind = "Left" -> ActionLeft(t)
      [] a.kind = "Right" -> ActionRight(t)
      [] a.kind = "Up" -> ActionUp(t)
      [] a.kind = "Down" -> ActionDown(t)
      [] a.kind = "Backspace" -> ActionBackspace(t)
      [] a.kind = "Delete" -> ActionDelete(t)
      [] a.kind = "Insert" -> ActionInsert(t, a.arg)
      [] a.kind = "Escape" -> ActionEscape(t)
      [] a.kind = "BufferEnd" -> ActionBufferEnd(t)
      [] a.kind = "SetSelect" -> SetSelectOpt(t, a.arg)
      [] a.kind = "PreviousWord" -> ActionPreviousWord(t)
      [] a.kind = "NextWord" -> ActionNextWord(t)
      [] a.kind = "Click" -> ActionClick(t, a.arg)
      [] a.kind = "Drag" -> ActionDrag(t, a.arg)

\* the calls of a sequence applied in order
RECURSIVE ApplyAll(_, _)
ApplyAll(t, acts) ==
    IF acts = <<>> THEN t ELSE ApplyAll(ApplyAction(t, Head(acts)), Tail(acts))

Act(kind, arg) == [kind |-> kind, arg |-> arg]
When(cond, acts) == IF cond THEN acts ELSE <<>>

\* ------------------------------------------------------ the host's window
\* Window::height() of the primary window, in pixels
WindowHeight == 5

\* GlobalTransform::affine().translation of an editor's node, in half pixels
Translation(e) == IF e = 1 THEN [x |-> 7, y |-> 5] ELSE [x |-> 0, y |-> 0]

\* Window::cursor_position(): None, or a point in half pixels (the second
\* point lies on the left edge of node 1)
Pointers == {NoPoint, [x |-> 6, y |-> 4], [x |-> 2, y |-> 4]}

\* (mutant) a pointer on the edge of the node's rectangle is taken as inside
GetNodeCursorPos_Inclusive(pos, e) ==
    LET x_min == Translation(e).x - NodeSize(e).x
        y_min == 2 * WindowHeight - Translation(e).y - NodeSize(e).y
        x_max == x_min + 2 * NodeSize(e).x
        y_max == y_min + 2 * NodeSize(e).y
    IN  IF pos = NoPoint THEN NoPoint
        ELSE IF x_min <= pos.x /\ pos.x <= x_max /\ y_min <= pos.y /\ pos.y <= y_max
        THEN [x |-> pos.x - x_min, y |-> y_max - pos.y]
        ELSE NoPoint

\* get_node_cursor_pos: the pointer relative to the node, or None when the
\* pointer is absent or not strictly inside the node's rectangle (half pixels)
GetNodeCursorPos(pos, e) ==
    LET x_min == Translation(e).x - NodeSize(e).x
        y_min == 2 * WindowHeight - Translation(e).y - NodeSize(e).y
        x_max == x_min + 2 * NodeSize(e).x
        y_max == y_min + 2 * NodeSize(e).y
    IN  IF pos = NoPoint THEN NoPoint
        ELSE IF x_min < pos.x /\ pos.x < x_max /\ y_min < pos.y /\ pos.y < y_max
        THEN [x |-> pos.x - x_min, y |-> y_max - pos.y]
        ELSE NoPoint

\* ---------------------------------------- Events<ReceivedCharacter>, reader
\* Events::send: the event gets the running count as its id and goes to the
\* newer buffer
EventsSend(ev, ch) ==
    [ev EXCEPT !.b = Append(@, [id |-> ev.count, char |-> ch]), !.count = @ + 1]

RECURSIVE EventsSendAll(_, _)
EventsSendAll(ev, batch) ==
    IF batch = <<>> THEN ev
    ELSE EventsSendAll(EventsSend(ev, Head(batch)), Tail(batch))

\* Events::update (once a frame, before the systems): the buffers are swapped
\* and the older one is dropped
EventsUpdate(ev) == [ev EXCEPT !.a = ev.b, !.b = <<>>]

\* EventReader::iter: the events of both buffers the reader has not seen
ReaderIter(ev, last) == SelectSeq(ev.a \o ev.b, LAMBDA x : x.id >= last)

\* the sequences over S of length at most n
SeqsUpTo(S, n) == UNION {[1..k -> S] : k \in 0..n}

\* -------------------------------------------------------------- draw_pixel
\* A u32 is kept as its two 16-bit halves, so that no intermediate value
\* leaves the integers the model checker computes with.
U32(hi, lo) == [hi |-> hi, lo |-> lo]

RECURSIVE BitAnd(_, _)
\* a & b of two naturals
BitAnd(a, b) ==
    IF a = 0 \/ b = 0 THEN 0
    ELSE (a % 2) * (b % 2) + 2 * BitAnd(a \div 2, b \div 2)

RECURSIVE BitOr(_, _)
\* a | b of two naturals
BitOr(a, b) ==
    IF a = 0 THEN b
    ELSE IF b = 0 THEN a
    ELSE Max(a % 2, b % 2) + 2 * BitOr(a \div 2, b \div 2)

\* a & b and a | b of u32
And32(a, b) == U32(BitAnd(a.hi, b.hi), BitAnd(a.lo, b.lo))
Or32(a, b) == U32(BitOr(a.hi, b.hi), BitOr(a.lo, b.lo))

RECURSIVE Shr32(_, _)
\* a >> n of u32, n a multiple of 8
Shr32(a, n) ==
    IF n = 0 THEN a
    ELSE Shr32(U32(a.hi \div 256, (a.hi % 256) * 256 + a.lo \div 256), n - 8)

RECURSIVE Shl32(_, _)
\* a << n of u32, n a multiple of 8 (the bits shifted out are lost)
Shl32(a, n) ==
    IF n = 0 THEN a
    ELSE Shl32(U32((a.hi % 256) * 256 + a.lo \div 256, (a.lo % 256) * 256), n - 8)

\* a + b of u32, modulo 2^32
Add32(a, b) ==
    LET lo == a.lo + b.lo
    IN  U32((a.hi + b.hi + lo \div 65536) % 65536, lo % 65536)

\* a * b of u32, modulo 2^32, for a factor a below 2^8 (alpha, n_alpha)
Mul32(a, b) ==
    LET lo == a.lo * b.lo
    IN  U32((a.lo * b.hi + lo \div 65536) % 65536, lo % 65536)

\* a byte `as u32`, and a u32 `as u8`
AsU32(byte) == U32(0, byte)
AsU8(a) == a.lo % 256

\* cosmic_text::Color: the u32 0xAARRGGBB of the bytes r, g, b, a
Rgba(r, g, b, a) == U32(a * 256 + r, g * 256 + b)

\* (mutant) a coordinate equal to the width or the height passes
Clipped_OffByOne(width, height, x, y) ==
    y < 0 \/ y > height \/ x < 0 \/ x > width

\* the two bounds tests of draw_pixel: the pixel is skipped
Clipped(width, height, x, y) ==
    y < 0 \/ y >= height \/ x < 0 \/ x >= width

\* (mutant) only a fully opaque colour replaces the pixel
Replaces_OpaqueOnly(alpha, current) == alpha.lo >= 255

\* alpha >= 255 || current == 0: the colour replaces the pixel
Replaces(alpha, current) == alpha.lo >= 255 \/ current = U32(0, 0)

\* a * b and a + b as the integers they are, not cut to 32 bits: the upper
\* half is 2^16 or more when the u32 operation overflows (a below 2^8)
MulWide(a, b) ==
    LET lo == a.lo * b.lo
    IN  U32(a.lo * b.hi + lo \div 65536, lo % 65536)
AddWide(a, b) ==
    LET lo == a.lo + b.lo
    IN  U32(a.hi + b.hi + lo \div 65536, lo % 65536)

\* the sum of the red and blue lanes, before `>> 8`:
\* n_alpha * (current & 0x00FF00FF) + alpha * (color.0 & 0x00FF00FF)
RbSum(alpha, current, color) ==
    LET n_alpha == U32(0, 255 - alpha.lo)
    IN  AddWide(MulWide(n_alpha, And32(current, U32(255, 255))),
                MulWide(alpha, And32(color, U32(255, 255))))

\* (mutant) the alpha and green lanes of the pixel are not shifted down
AgSum_Unshifted(alpha, current, color) ==
    LET n_alpha == U32(0, 255 - alpha.lo)
    IN  AddWide(MulWide(n_alpha, And32(current, U32(65280, 65280))),
                MulWide(alpha, Or32(U32(256, 0),
                                    Shr32(And32(color, U32(0, 65280)), 8))))

\* the sum of the alpha and green lanes: n_alpha * ((current & 0xFF00FF00)
\* >> 8) + alpha * (0x01000000 | ((color.0 & 0x0000FF00) >> 8))
AgSum(alpha, current, color) ==
    LET n_alpha == U32(0, 255 - alpha.lo)
    IN  AddWide(MulWide(n_alpha, Shr32(And32(current, U32(65280, 65280)), 8)),
                MulWide(alpha, Or32(U32(256, 0),
                                    Shr32(And32(color, U32(0, 65280)), 8))))

\* (mutant) the colour is stored whatever its alpha is
Blend_Replace(alpha, current, color) == color

\* the value stored for the pixel: the colour itself, or the blend of the
\* colour with the pixel's current value (the sums cut to 32 bits)
Blend(alpha, current, color) ==
    IF Replaces(alpha, current)
    THEN color
    ELSE LET rbs == RbSum(alpha, current, color)
             ags == AgSum(alpha, current, color)
             rb == Shr32(U32(rbs.hi % 65536, rbs.lo), 8)
             ag == U32(ags.hi % 65536, ags.lo)
         IN  Or32(And32(rb, U32(255, 255)), And32(ag, U32(65280, 65280)))

\* (mutant) a fully transparent colour is drawn like any other
Alpha_Opaque(color) == IF Shr32(color, 24).lo % 256 = 0 THEN U32(0, 255)
                       ELSE And32(Shr32(color, 24), U32(0, 255))

\* (color.0 >> 24) & 0xFF
Alpha(color) == And32(Shr32(color, 24), U32(0, 255))

\* (mutant) the row and the column change places
ByteOffset_Transposed(width, x, y) == (x * width + y) * 4

\* the index of the pixel's first byte: (y * width + x) * 4
ByteOffset(width, x, y) == (y * width + x) * 4

\* draw_pixel on a buffer of bytes (a sequence, so byte i of the slice is
\* buffer[i + 1]): the buffer after the call, the indices of the slice it
\* read or wrote, whether an index was out of the slice (a panic), and the
\* two sums of the blend when it blended
DrawPixel(buffer, width, height, x, y, color) ==
    LET alpha == Alpha(color)
        offset == ByteOffset(width, x, y)
        At(i) == AsU32(buffer[offset + i + 1])
        current == Or32(Or32(Or32(At(2), Shl32(At(1), 8)), Shl32(At(0), 16)),
                        Shl32(At(3), 24))
        stored == Blend(alpha, current, color)
        NoSums == [rb |-> U32(0, 0), ag |-> U32(0, 0)]
        sums == IF Replaces(alpha, current) THEN NoSums
                ELSE [rb |-> RbSum(alpha, current, color),
                      ag |-> AgSum(alpha, current, color)]
        Quiet == [buffer |-> buffer, touched |-> {}, panic |-> FALSE, sums |-> NoSums]
    IN  IF alpha = U32(0, 0) THEN Quiet
        ELSE IF Clipped(width, height, x, y) THEN Quiet
        ELSE IF offset + 3 >= Len(buffer)
        THEN [buffer |-> buffer, touched |-> offset..(offset + 3), panic |-> TRUE,
              sums |-> NoSums]
        ELSE [buffer |-> [buffer EXCEPT ![offset + 3] = AsU8(stored),
                                        ![offset + 2] = AsU8(Shr32(stored, 8)),
                                        ![offset + 1] = AsU8(Shr32(stored, 16)),
                                        ![offset + 4] = AsU8(Shr32(stored, 24))],
              touched |-> offset..(offset + 3), panic |-> FALSE, sums |-> sums]

\* the pixels (R, G, B, A) a buffer starts with and the colours drawn on it
DestPixels == {<<0, 0, 0, 0>>, <<255, 255, 255, 255>>, <<10, 200, 30, 128>>}
Colors == {Rgba(c[1], c[2], c[3], a) :
             c \in {<<0, 0, 0>>, <<255, 255, 255>>, <<200, 100, 50>>},
             a \in {0, 1, 128, 254, 255}}

RECURSIVE Flatten(_)
\* the bytes of a sequence of pixels
Flatten(ps) == IF ps = <<>> THEN <<>> ELSE Head(ps) \o Flatten(Tail(ps))

\* vec![0; width * height * 4], or the same filled with another pixel of
\* DestPixels by earlier draws: a width x height image
Canvases ==
    UNION {{[width |-> w, height |-> h,
             pixels |-> Flatten([k \in 1..(w * h) |-> d])] : d \in DestPixels} :
           w \in 1..MaxSide, h \in 1..MaxSide}

\* no call of draw_pixel yet
NoCall == [x |-> 0, y |-> 0, color |-> U32(0, 0), before |-> <<>>,
           touched |-> {}, panic |-> FALSE,
           sums |-> [rb |-> U32(0, 0), ag |-> U32(0, 0)]]
NoCanvas == [width |-> 0, height |-> 0, pixels |-> <<>>, calls |-> 0, call |-> NoCall]

\* ------------------------------------------------ get_y_offset, get_x_offset
\* a / b truncated toward zero, for b > 0: a float quotient `as i32`
TruncDiv(a, b) == IF a >= 0 THEN a \div b ELSE -((-a) \div b)

\* a length in half pixels `as i32`, in pixels
AsI32(len) == TruncDiv(len, 2)

\* Buffer::visible_lines: (height / line_height) as i32
VisibleLines(editor) == TruncDiv(editor.size.h, editor.metrics.line_height)

\* get_y_offset, in pixels; editor.size and editor.metrics are in half pixels,
\* so ((size.1 - text_height) / 2.0) as i32 divides the half pixels by 4
GetYOffset(editor) ==
    LET text_height == editor.metrics.line_height
                         * Min(VisibleLines(editor), Len(editor.lines))
    IN  TruncDiv(editor.size.h - text_height, 4)

RECURSIVE MaxLineWidth(_)
\* the loop of get_x_offset over the layout lines: the largest w, from 0.
MaxLineWidth(layout) ==
    IF layout = <<>> THEN 0 ELSE Max(Head(layout), MaxLineWidth(Tail(layout)))

\* get_x_offset, in pixels: cmp::min takes both widths `as i32`
GetXOffset(editor) ==
    LET max_line_width == MaxLineWidth(editor.layout)
    IN  TruncDiv(editor.size.w
                   - 2 * Min(AsI32(max_line_width), AsI32(editor.size.w)), 4)

\* match text_pos: (offset_y, offset_x) of the dispatcher and the rasterizer
Offsets(text_pos, editor) ==
    IF text_pos = "Center"
    THEN [y |-> GetYOffset(editor), x |-> GetXOffset(editor)]
    ELSE [y |-> 0, x |-> 0]

\* the editors the offsets are computed for: Buffer::size and line height in
\* half pixels, the text's lines, and the widths of the shaped layout lines
\* in half pixels (the last two surfaces are 200 x 100 and 10 x 6 pixels)
Surfaces == {[w |-> 400, h |-> 200], [w |-> 20, h |-> 12], [w |-> 21, h |-> 13],
             [w |-> 2, h |-> 2]}
Layouts == {<<>>, <<100>>, <<9>>, <<8, 30>>, <<500>>}
Shaped ==
    {[size |-> s, metrics |-> [line_height |-> lh],
      lines |-> [k \in 1..n |-> <<>>], layout |-> l] :
        s \in Surfaces, lh \in {40, 5}, n \in 1..MaxLines, l \in Layouts}

\* no call of the offset functions yet
NoOffsets == [text_pos |-> "TopLeft", editor |-> [size |-> [w |-> 0, h |-> 0]],
              y |-> 0, x |-> 0, calls |-> 0]

\* ------------------------------------------- set_text and get_cosmic_text
\* A text is a sequence of characters; a line break is the character Newline.
Newline == "\n"

\* letters of the texts an editor is spawned with
Letters == {"a", "b"}

\* the position of the first Newline of text at or after i, 0 when none
RECURSIVE FindNewline(_, _)
FindNewline(text, i) ==
    IF i > Len(text) THEN 0
    ELSE IF text[i] = Newline THEN i
    ELSE FindNewline(text, i + 1)

\* str::lines: the text split at each Newline, the Newline left out; a text
\* that ends with a Newline has no line after it, and the empty text has none
RECURSIVE StrLines(_)
StrLines(text) ==
    IF text = <<>> THEN <<>>
    ELSE LET n == FindNewline(text, 1)
         IN  IF n = 0 THEN <<text>>
             ELSE <<SubSeq(text, 1, n - 1)>> \o StrLines(SubSeq(text, n + 1, Len(text)))

\* Buffer::set_text: one BufferLine per line of the text, and one empty line
\* when there is none
SetText(text) ==
    LET ls == StrLines(text)
    IN  IF ls = <<>> THEN << <<>> >> ELSE ls

\* get_cosmic_text: the text of every line from the i-th on, a Newline after
\* each but the last
RECURSIVE GetCosmicTextFrom(_, _)
GetCosmicTextFrom(lines, i) ==
    IF i > Len(lines) THEN <<>>
    ELSE lines[i] \o (IF i - 1 < Len(lines) - 1 THEN <<Newline>> ELSE <<>>)
                  \o GetCosmicTextFrom(lines, i + 1)

GetCosmicText(editor) == GetCosmicTextFrom(editor.lines, 1)

\* join(lines, "\n"): the text CosmicEditMeta::text carries for these lines
RECURSIVE Join(_)
Join(lines) ==
    IF lines = <<>> THEN <<>>
    ELSE IF Len(lines) = 1 THEN lines[1]
    ELSE lines[1] \o <<Newline>> \o Join(Tail(lines))

\* the sequences of lines an editor is spawned with: at least one line
LineSeqs == SeqsUpTo(SeqsUpTo(Letters, 2), MaxLines) \ {<<>>}

NoSpawn == [given |-> <<>>, text |-> <<>>, editor |-> [lines |-> <<>>], read |-> <<>>,
            calls |-> 0]

\* no image made for an editor alone yet
NoRaster == [calls |-> 0]

\* ------------------------------------------------------------------ state
Systems == {"events", "redraw", "active", "scale"}

VARIABLES
    editors,          \* entity -> CosmicEditImage::editor: text, cursor, selection, Buffer
    pix,              \* entity -> size of the pixel buffer of its UiImage (pixels)
    active,           \* ActiveEditor::entity
    activeDirty,      \* ActiveEditor written since active_editor_changed last ran (is_changed)
    previous_editor,  \* Local<Option<Entity>> of active_editor_changed
    is_deleting,      \* Local<bool> of cosmic_edit_bevy_events
    wasm32,           \* the build: cfg(target_arch = "wasm32")
    backDown,         \* Input<KeyCode>: Back is pressed
    mouseDown,        \* Input<MouseButton>: Left is pressed
    events,           \* Events<ReceivedCharacter>
    last_event_count, \* the position of char_evr, the system's EventReader
    windowScale,      \* Window::scale_factor(), in halves
    scaleEv,          \* a WindowScaleFactorChanged event the scale system has not read
    done,             \* the systems that have run in this frame
    disp,             \* history: what cosmic_edit_bevy_events did in this frame
    focus,            \* history: what active_editor_changed found in this frame
    drawn,            \* history: the editors cosmic_edit_redraw_buffer drew in this frame
    received,         \* history: the ids of the character events of this frame
    skipped,          \* history: the ids of the events of frames the system left early
    canvas,           \* the image draw_pixel works on, with its last call
    offsets,          \* the last call of get_y_offset and get_x_offset
    spawned,          \* the last editor spawned with a text, and the text read back
    raster            \* the last image made for an editor alone, with what it was made of

\* the state of the systems, and the state of the functions checked alone
frame == <<editors, pix, active, activeDirty, previous_editor, is_deleting, wasm32,
           backDown, mouseDown, events, last_event_count, windowScale, scaleEv,
           done, disp, focus, drawn, received, skipped>>
alone == <<canvas, offsets, spawned, raster>>
vars == <<frame, alone>>

TextOf(ed) == [lines |-> ed.lines, cursor |-> ed.cursor, select |-> ed.select]

\* Metrics::new(font_size, line_height).scale(scale), in half pixels
ScaledMetrics(e, scale) ==
    [font_size |-> FontSize(e) * scale, line_height |-> FontLineHeight(e) * scale]

\* spawn_cosmic_edit: the editor of a new entity, text set, sized to its node
SpawnCosmicEdit(e, lines, scale) ==
    [lines |-> lines, cursor |-> Cur(0, 0), select |-> NoCursor,
     redraw |-> TRUE, stale |-> TRUE,
     metrics |-> ScaledMetrics(e, scale),
     size |-> [w |-> 2 * NodeSize(e).x, h |-> 2 * NodeSize(e).y]]

\* (mutant) the lines are cleared and no text is set
SpawnText_Cleared(e) == <<>>

\* the lines Buffer::set_text makes of the text each entity is spawned with
SpawnText(e) == SetText(IF e = 1 THEN <<"a">> ELSE <<>>)

\* disp: target = the editor the system worked on, acted = it made a call on
\* it, pointer = the pointer call it made, chars = the character events it read
\* with the call each became, returned = it returned early, held = Back is
\* down and was not released in this frame, jp / cmd / opt = the keys it found
\* just pressed and the modifiers it found pressed, at = the cursor position
\* of the window while the button was pressed or held
Idle == [target |-> None, acted |-> FALSE, pointer |-> "none", chars |-> <<>>,
         returned |-> FALSE, held |-> FALSE, jp |-> {}, cmd |-> FALSE, opt |-> FALSE,
         at |-> NoPoint]

\* the state after the plugin is built and the editors are spawned
Spawned ==
    /\ wasm32 \in BOOLEAN
    /\ editors = [e \in Editors |-> SpawnCosmicEdit(e, SpawnText(e), 2)]
    /\ pix = [e \in Editors |-> NoImage]
    /\ active = None
    /\ activeDirty = TRUE
    /\ previous_editor = None
    /\ is_deleting = FALSE
    /\ backDown = FALSE
    /\ mouseDown = FALSE
    /\ events = [a |-> <<>>, b |-> <<>>, count |-> 0]
    /\ last_event_count = 0
    /\ windowScale = 2
    /\ scaleEv = FALSE
    /\ done = Systems
    /\ disp = Idle
    /\ focus = "idle"
    /\ drawn = {}
    /\ received = {}
    /\ skipped = {}

Init ==
    /\ Spawned /\ canvas = NoCanvas /\ offsets = NoOffsets /\ spawned = NoSpawn
    /\ raster = NoRaster

\* ------------------------------------------------------------- the host
\* The frame begins: the window system has sent this frame's
\* ReceivedCharacter events and, when the display changed, the new scale
\* factor with its WindowScaleFactorChanged event; Events::update has run.
BeginFrame(P) ==
    /\ done = Systems
    /\ \E batch \in SeqsUpTo(P.chars, MaxBatch), s \in P.scales :
        /\ events.count + Len(batch) <= MaxEvents
        /\ events' = EventsUpdate(EventsSendAll(events, batch))
        /\ received' = {events.count + k - 1 : k \in 1..Len(batch)}
        /\ windowScale' = s
        /\ scaleEv' = (s # windowScale)
    /\ done' = {}
    /\ disp' = Idle
    /\ focus' = "idle"
    /\ drawn' = {}
    /\ UNCHANGED alone
    /\ UNCHANGED <<editors, pix, active, activeDirty, previous_editor, is_deleting,
                   wasm32, backDown, mouseDown, last_event_count, skipped>>

\* A system outside this crate writes ActiveEditor (ResMut, so the write marks
\* the resource changed also when the identity is the one it had).
SetActiveEditor(P) ==
    /\ done # Systems
    /\ \E x \in P.idents :
        active' = x
    /\ activeDirty' = TRUE
    /\ UNCHANGED alone
    /\ UNCHANGED <<editors, pix, previous_editor, is_deleting, wasm32, backDown,
                   mouseDown, events, last_event_count, windowScale, scaleEv, done,
                   disp, focus, drawn, received, skipped>>

\* ------------------------------------------------- cosmic_edit_bevy_events
Keys == {"Left", "Right", "Up", "Down", "Delete", "Return", "Escape", "A"}

\* what Back did since the last frame, given whether it was down
BackEvents(down) == IF down THEN {"none", "release"} ELSE {"none", "press", "tap"}
\* what the left button did since the last frame, given whether it was down
MouseEvents(down) == IF down THEN {"hold", "release"} ELSE {"none", "press"}

\* The inputs of one frame as the system reads them from Input<KeyCode>,
\* Input<MouseButton> and the window: jp = just_pressed keys, cmd / opt = a
\* command / option key is pressed, back and mouse as above, pointer = the
\* cursor position, hit = what Buffer::hit answers for a click or drag on
\* entity e, direct = cosmic_text marks the buffer for redraw in the call that
\* changes the editor. P names the keys and buttons the host offers.
Inputs(P, e, lines) ==
    LET Down(j, b, m) == Cardinality(j) + (IF b \in {"press", "tap"} THEN 1 ELSE 0)
                           + (IF m = "press" THEN 1 ELSE 0)
        Mods(j) == IF j \cap {"A", "Left", "Right"} # {}
                   THEN {<<FALSE, FALSE>>, <<TRUE, FALSE>>, <<TRUE, TRUE>>}
                   ELSE {<<FALSE, FALSE>>}
        Hits(pos) == IF e # None /\ GetNodeCursorPos(pos, e) # NoPoint
                     THEN {NoCursor} \cup Positions(lines) ELSE {NoCursor}
        Points(m) == IF m \in {"press", "hold"}
                     THEN UNION {{<<pos, h>> : h \in Hits(pos)} : pos \in Pointers}
                     ELSE {<<NoPoint, NoCursor>>}
        Backs == IF P.back THEN BackEvents(backDown) ELSE {"none"}
        Mice == IF P.mouse THEN MouseEvents(mouseDown) ELSE {"none"}
        KeySets == {j \in SUBSET P.keys :
                      /\ Cardinality(j) <= MaxKeys
                      /\ "Return" \in j => Len(lines) < MaxLines}
    IN  UNION {UNION {UNION {
            {[jp |-> j, cmd |-> md[1], opt |-> md[2], back |-> b, mouse |-> m,
              pointer |-> pt[1], hit |-> pt[2], direct |-> d] :
                md \in Mods(j), pt \in Points(m), d \in P.direct} :
            m \in {mm \in Mice : Down(j, b, mm) <= MaxKeys}} :
            b \in Backs} :
            j \in KeySets}

\* (mutant) the pointer branches go on to the character events
Returns_KeysOnly(inp) ==
    \/ "Return" \in inp.jp
    \/ inp.cmd /\ "A" \in inp.jp
    \/ inp.cmd /\ inp.opt /\ "Left" \in inp.jp
    \/ inp.cmd /\ inp.opt /\ "Right" \in inp.jp

\* the frame's input takes one of the branches that end in `return`: Enter,
\* cmd+A, cmd+opt+Left, cmd+opt+Right, pointer press, pointer hold
Returns(inp) ==
    \/ "Return" \in inp.jp
    \/ inp.cmd /\ "A" \in inp.jp
    \/ inp.cmd /\ inp.opt /\ "Left" \in inp.jp
    \/ inp.cmd /\ inp.opt /\ "Right" \in inp.jp
    \/ inp.mouse \in {"press", "hold"}

\* (mutant) `pressed` is tested before `just_pressed`: a fresh press drags
PointerCalls_PressedFirst(mouse, node_cursor_pos, hit) ==
    When(node_cursor_pos # NoPoint, <<Act("Drag", hit)>>)

\* the call of the pointer branches, which both end in `return`: a Click for
\* the button just pressed, else a Drag for the button down, each only if
\* get_node_cursor_pos answers a position
PointerCalls(mouse, node_cursor_pos, hit) ==
    IF mouse = "press"
    THEN When(node_cursor_pos # NoPoint, <<Act("Click", hit)>>)
    ELSE When(node_cursor_pos # NoPoint, <<Act("Drag", hit)>>)

\* (mutant) the call is made on every target
BackCalls_EveryTarget == <<Act("Backspace", None)>>

\* the calls made for Back just pressed: Action::Backspace in the build for
\* wasm32, none in the others
BackCalls == IF wasm32 THEN <<Act("Backspace", None)>> ELSE <<>>

\* (mutant) the anchor is set and the cursor stays where it is
SelectAll_NoBufferEnd == <<Act("SetSelect", Cur(0, 0))>>

\* the calls of the cmd+A branch: the cursor to the end of the buffer, the
\* selection anchored at the start
SelectAll == <<Act("BufferEnd", None), Act("SetSelect", Cur(0, 0))>>

\* The calls the system makes on the active editor e for one frame's input, in
\* order, with the new value of is_deleting, whether it returned early and
\* which character events it read.
Dispatch(e, inp, deleting, pending) ==
    LET backJP == inp.back \in {"press", "tap"}
        backJR == inp.back \in {"release", "tap"}
        deleting1 == IF backJP THEN TRUE ELSE deleting
        deleting2 == IF backJR THEN FALSE ELSE deleting1
        node_cursor_pos == GetNodeCursorPos(inp.pointer, e)
        keys == When("Left" \in inp.jp, <<Act("Left", None)>>)
                \o When("Right" \in inp.jp, <<Act("Right", None)>>)
                \o When("Up" \in inp.jp, <<Act("Up", None)>>)
                \o When("Down" \in inp.jp, <<Act("Down", None)>>)
                \o When(backJP, BackCalls)
                \o When("Delete" \in inp.jp, <<Act("Delete", None)>>)
        esc == keys \o When("Escape" \in inp.jp, <<Act("Escape", None)>>)
        typed == [k \in 1..Len(pending) |->
                    IF deleting2 THEN Act("Backspace", None)
                    ELSE Act("Insert", pending[k].char)]
        early == Returns(inp)
        read == IF early THEN <<>> ELSE pending
        Out(acts) ==
            [acts |-> IF early THEN acts ELSE acts \o typed,
             deleting |-> deleting2, returned |-> early,
             pointer |-> IF acts # <<>> /\ acts[Len(acts)].kind \in {"Click", "Drag"}
                         THEN acts[Len(acts)].kind ELSE "none",
             typed |-> [k \in 1..Len(read) |->
                          [id |-> read[k].id, kind |-> typed[k].kind]]]
    IN  IF "Return" \in inp.jp
        THEN Out(keys \o <<Act("Insert", "\n")>>)
        ELSE IF inp.cmd /\ "A" \in inp.jp
        THEN Out(esc \o SelectAll)
        ELSE IF inp.cmd /\ inp.opt /\ "Left" \in inp.jp
        THEN Out(esc \o <<Act("PreviousWord", None)>>)
        ELSE IF inp.cmd /\ inp.opt /\ "Right" \in inp.jp
        THEN Out(esc \o <<Act("NextWord", None)>>)
        ELSE IF inp.mouse \in {"press", "hold"}
        THEN Out(esc \o PointerCalls(inp.mouse, node_cursor_pos, inp.hit))
        ELSE Out(esc)

\* an editor after the calls: the text changed by them; a changed line has
\* lost its shaped layout; the redraw flag is set if cosmic_text set it
Edited(ed, acts, direct) ==
    LET t == ApplyAll(TextOf(ed), acts)
    IN  [ed EXCEPT !.lines = t.lines, !.cursor = t.cursor, !.select = t.select,
                   !.stale = @ \/ t.lines # ed.lines,
                   !.redraw = @ \/ (direct /\ t # TextOf(ed))]

\* (mutant) with no editor in the slot the first editor of the query is taken
Target_Fallback == IF active \in Editors THEN active ELSE 1

\* the entity the loop over the query finds equal to ActiveEditor::entity
Target == IF active \in Editors THEN active ELSE None

\* the system, for one frame's input
CosmicEditBevyEvents(P) ==
    /\ "events" \notin done
    /\ \E inp \in Inputs(P, Target,
                         IF Target = None THEN << <<>> >> ELSE editors[Target].lines) :
        /\ backDown' = (inp.back = "press" \/ (backDown /\ inp.back = "none"))
        /\ mouseDown' = (inp.mouse \in {"press", "hold"})
        /\ IF Target = None
           THEN /\ UNCHANGED <<editors, is_deleting, last_event_count, skipped>>
                /\ disp' = Idle
           ELSE LET pending == ReaderIter(events, last_event_count)
                    d == Dispatch(Target, inp, is_deleting, pending)
                IN  /\ editors' = [editors EXCEPT
                                     ![Target] = Edited(@, d.acts, inp.direct)]
                    /\ is_deleting' = d.deleting
                    /\ last_event_count' =
                          IF d.returned THEN last_event_count ELSE events.count
                    /\ skipped' = IF d.returned THEN skipped \cup received ELSE skipped
                    /\ disp' = [target |-> Target,
                                acted |-> d.acts # <<>>,
                                pointer |-> d.pointer,
                                chars |-> d.typed,
                                returned |-> d.returned,
                                held |-> backDown',
                                jp |-> inp.jp, cmd |-> inp.cmd, opt |-> inp.opt,
                                at |-> inp.pointer]
    /\ done' = done \cup {"events"}
    /\ UNCHANGED alone
    /\ UNCHANGED <<pix, active, activeDirty, previous_editor, wasm32, events,
                   windowScale, scaleEv, focus, drawn, received>>

\* ---------------------------------------------------- active_editor_changed
\* (mutant) the recorded identity is not compared
FocusMoved_AnyWrite(changed, entity, previous) == changed

\* (mutant) the flag is cleared instead of set
Focused_ClearsRedraw(ed) ==
    [ed EXCEPT !.select = NoCursor, !.cursor = EndOf(ed.lines), !.redraw = FALSE]

\* (mutant) the cursor is left where it was
Focused_NoBufferEnd(ed) == [ed EXCEPT !.select = NoCursor, !.redraw = TRUE]

\* the system's condition: the resource was written since the last run and
\* holds another identity than the one recorded
FocusMoved(changed, entity, previous) == changed /\ entity # previous

\* the editor that takes the focus: selection dropped, cursor to the end of
\* the buffer, marked for redraw
Focused(ed) ==
    LET t == ActionBufferEnd(SetSelectOpt(TextOf(ed), NoCursor))
    IN  [ed EXCEPT !.select = t.select, !.cursor = t.cursor, !.redraw = TRUE]

\* (mutant) the identity is recorded only where an editor was found
Recorded_EditorsOnly(entity, previous) == IF entity \in Editors THEN entity ELSE previous

\* the identity recorded after a change was handled, editor or not
Recorded(entity, previous) == entity

ActiveEditorChanged ==
    /\ "active" \notin done
    /\ IF FocusMoved(activeDirty, active, previous_editor)
       THEN /\ IF active \in Editors
               THEN /\ editors' = [editors EXCEPT ![active] = Focused(@)]
                    /\ focus' = "reset"
               ELSE /\ UNCHANGED editors
                    /\ focus' = "moved"
            /\ previous_editor' = Recorded(active, previous_editor)
       ELSE /\ UNCHANGED <<editors, previous_editor>>
            /\ focus' = IF activeDirty THEN "same" ELSE "quiet"
    /\ activeDirty' = FALSE
    /\ done' = done \cup {"active"}
    /\ UNCHANGED alone
    /\ UNCHANGED <<pix, active, is_deleting, wasm32, backDown, mouseDown, events,
                   last_event_count, windowScale, scaleEv, disp, drawn, received,
                   skipped>>

\* ------------------------------------------------------ scale_factor_changed
\* (mutant) the metrics are scaled from the ones the buffer holds
Rescaled_Compounds(e, ed, scale) ==
    [ed EXCEPT !.metrics = [font_size |-> (ed.metrics.font_size * scale) \div 2,
                            line_height |-> (ed.metrics.line_height * scale) \div 2],
               !.size = [w |-> NodeSize(e).x * scale, h |-> NodeSize(e).y * scale],
               !.stale = FALSE, !.redraw = TRUE]

\* one editor after the system's loop body: metrics from the stored base
\* values, size from the node, both times the window's scale factor
Rescaled(e, ed, scale) ==
    LET metrics == ScaledMetrics(e, scale)
        size == [w |-> NodeSize(e).x * scale, h |-> NodeSize(e).y * scale]
    IN  [ed EXCEPT !.metrics = metrics, !.size = size,
                   !.stale = @ /\ metrics = ed.metrics /\ size = ed.size,
                   !.redraw = TRUE]

ScaleFactorChanged ==
    /\ "scale" \notin done
    /\ editors' = IF scaleEv
                  THEN [e \in Editors |-> Rescaled(e, editors[e], windowScale)]
                  ELSE editors
    /\ scaleEv' = FALSE
    /\ done' = done \cup {"scale"}
    /\ UNCHANGED alone
    /\ UNCHANGED <<pix, active, activeDirty, previous_editor, is_deleting, wasm32,
                   backDown, mouseDown, events, last_event_count, windowScale,
                   disp, focus, drawn, received, skipped>>

\* ------------------------------------------------- cosmic_edit_redraw_buffer
\* Editor::shape_as_needed: lines without a shaped layout are shaped, which
\* marks the buffer for redraw
ShapeAsNeeded(ed) == [ed EXCEPT !.stale = FALSE, !.redraw = @ \/ ed.stale]

\* (mutant) the side is not clamped
Side_Unclamped(n, scale) == (n * scale) \div 2

\* (node size * scale factor) as i32, at least 1: a side of the image, in pixels
Side(n, scale) == Max((n * scale) \div 2, 1)

\* (mutant) the buffer is drawn whatever its flag says
NeedsRedraw_Always(ed) == TRUE

\* the test of the loop body: the flag, read after shape_as_needed
NeedsRedraw(ed) == ShapeAsNeeded(ed).redraw

\* (mutant) the flag is not cleared after the draw
Redrawn_KeepsFlag(e, ed, scale) ==
    LET shaped == ShapeAsNeeded(ed)
    IN  IF NeedsRedraw(ed)
        THEN [shaped EXCEPT !.size = [w |-> 2 * Side(NodeSize(e).x, scale),
                                      h |-> 2 * Side(NodeSize(e).y, scale)]]
        ELSE shaped

\* one editor after the system's loop body
Redrawn(e, ed, scale) ==
    LET shaped == ShapeAsNeeded(ed)
    IN  IF NeedsRedraw(ed)
        THEN [shaped EXCEPT !.size = [w |-> 2 * Side(NodeSize(e).x, scale),
                                      h |-> 2 * Side(NodeSize(e).y, scale)],
                            !.redraw = FALSE]
        ELSE shaped

\* vec![0; n]
ZeroPixels(n) == [i \in 1..n |-> 0]

RECURSIVE DrawSpan(_, _, _, _, _)
\* the closure given to Editor::draw, called for one span of a glyph: every
\* cell of the span from the k-th on, row by row, goes to draw_pixel at its
\* place plus the offsets
DrawSpan(pixels, width, height, span, k) ==
    IF k > span.w * span.h THEN pixels
    ELSE DrawSpan(DrawPixel(pixels, width, height,
                            span.x + ((k - 1) % span.w) + span.offset_x,
                            span.y + ((k - 1) \div span.w) + span.offset_y,
                            span.color).buffer,
                  width, height, span, k + 1)

\* the loop body for an editor marked for redraw, with one span drawn: the
\* sides of the image, its pixels, and the editor after the pass
Raster(e, ed, scale, span) ==
    LET width == Side(NodeSize(e).x, scale)
        height == Side(NodeSize(e).y, scale)
    IN  [width |-> width, height |-> height,
         pixels |-> DrawSpan(ZeroPixels(width * height * 4), width, height, span, 1),
         editor |-> Redrawn(e, ed, scale)]

\* the spans Editor::draw hands to the closure (they may lie outside the
\* image) with the colour of each and the offsets of the text position
Spans ==
    {[x |-> x, y |-> y, w |-> w, h |-> h, color |-> Rgba(0, 0, 0, a),
      offset_x |-> o, offset_y |-> o] :
        x \in {-1, 0, 4}, y \in {0, 2}, w \in 1..MaxSide, h \in 1..MaxSide,
        a \in {0, 128, 255}, o \in {0, 1}}

CosmicEditRedrawBuffer ==
    /\ "redraw" \notin done
    /\ LET todo == {e \in Editors : NeedsRedraw(editors[e])}
       IN  /\ editors' = [e \in Editors |-> Redrawn(e, editors[e], windowScale)]
           /\ pix' = [e \in Editors |->
                        IF e \in todo
                        THEN [w |-> Side(NodeSize(e).x, windowScale),
                              h |-> Side(NodeSize(e).y, windowScale)]
                        ELSE pix[e]]
           /\ drawn' = todo
    /\ done' = done \cup {"redraw"}
    /\ UNCHANGED alone
    /\ UNCHANGED <<active, activeDirty, previous_editor, is_deleting, wasm32,
                   backDown, mouseDown, events, last_event_count, windowScale,
                   scaleEv, disp, focus, received, skipped>>

\* one call of draw_pixel by the closure given to Editor::draw
DrawPixelCall ==
    /\ canvas.calls < MaxCalls
    /\ \E x \in -1..MaxSide, y \in -1..MaxSide, color \in Colors :
        LET r == DrawPixel(canvas.pixels, canvas.width, canvas.height, x, y, color)
        IN  canvas' = [canvas EXCEPT
                         !.pixels = r.buffer,
                         !.calls = @ + 1,
                         !.call = [x |-> x, y |-> y, color |-> color,
                                   before |-> canvas.pixels,
                                   touched |-> r.touched, panic |-> r.panic,
                                   sums |-> r.sums]]
    /\ UNCHANGED <<frame, offsets, spawned, raster>>

\* the offsets are computed for an editor, as both systems do before they
\* use them
GetOffsets ==
    /\ \E text_pos \in {"Center", "TopLeft"}, editor \in Shaped :
        LET o == Offsets(text_pos, editor)
        IN  offsets' = [text_pos |-> text_pos, editor |-> editor,
                        y |-> o.y, x |-> o.x, calls |-> 1]
    /\ UNCHANGED <<frame, canvas, spawned, raster>>

\* an editor is spawned with the text of the given lines, and its text is
\* read back
SpawnWithText ==
    /\ \E lines \in LineSeqs, e \in Editors, scale \in Scales :
        LET text == Join(lines)
            editor == SpawnCosmicEdit(e, SetText(text), scale)
        IN  spawned' = [given |-> lines, text |-> text, editor |-> editor,
                        read |-> GetCosmicText(editor), calls |-> 1]
    /\ UNCHANGED <<frame, canvas, offsets, raster>>

\* an editor marked for redraw is drawn: as spawned or as a scale pass left
\* it (the size it stored is not clamped), at any scale factor
Rasterize ==
    /\ raster = NoRaster
    /\ \E e \in Editors, before \in Scales \cup {0}, scale \in Scales, span \in Spans :
        LET new == SpawnCosmicEdit(e, SpawnText(e), 2)
            ed == IF before = 0 THEN new ELSE Rescaled(e, new, before)
            r == Raster(e, ed, scale, span)
        IN  raster' = [calls |-> 1, e |-> e, scale |-> scale, span |-> span,
                       stored |-> ed.size, width |-> r.width, height |-> r.height,
                       pixels |-> r.pixels, editor |-> r.editor]
    /\ UNCHANGED <<frame, canvas, offsets, spawned>>

\* ---------------------------------------------------------- specification
\* CosmicEditPlugin::build adds the four systems without an order between
\* them: in a frame each runs once, in any order. P is what the host offers.
Frame(P) ==
    \/ BeginFrame(P)
    \/ SetActiveEditor(P)
    \/ CosmicEditBevyEvents(P)
    \/ CosmicEditRedrawBuffer
    \/ ActiveEditorChanged
    \/ ScaleFactorChanged

\* the build for a target other than wasm32
InitNative == Init /\ wasm32 = FALSE

\* The host of the focus checks: two editors and a stranger take the focus in
\* turn, the cursor is moved and the text selected from the keyboard.
FocusHost == [keys |-> {"Left", "A"}, back |-> FALSE, mouse |-> FALSE,
              chars |-> {}, scales |-> {2}, idents |-> Entities \cup {None},
              direct |-> BOOLEAN]
NextFocus == Frame(FocusHost)
SpecFocus == InitNative /\ [][NextFocus]_vars

\* The host of the Backspace checks: Back is pressed, held and released while
\* characters are typed and the focus moves between the editors and none.
InputHost == [keys |-> {}, back |-> TRUE, mouse |-> FALSE,
              chars |-> Chars, scales |-> {2}, idents |-> Editors \cup {None},
              direct |-> {TRUE}]
NextInput == Frame(InputHost)
SpecInput == Init /\ [][NextInput]_vars

\* The host of the early-return checks: the keys of the returning branches
\* and Escape, the pointer and typed characters, the focus on editor 1.
PointerHost == [keys |-> {"Return", "A", "Left", "Right", "Escape"},
                back |-> FALSE, mouse |-> TRUE, chars |-> Chars, scales |-> {2}, idents |-> {1},
                direct |-> {TRUE}]
NextPointer == Frame(PointerHost)
SpecPointer == InitNative /\ [][NextPointer]_vars

\* The host of the dispatch checks: keys that move the cursor and change the
\* text, the pointer, the focus on either editor or on none.
DispatchHost == [keys |-> {"Left", "Delete"}, back |-> FALSE, mouse |-> TRUE,
                 chars |-> {}, scales |-> {2}, idents |-> Editors \cup {None},
                 direct |-> {TRUE}]
NextDispatch == Frame(DispatchHost)
SpecDispatch == InitNative /\ [][NextDispatch]_vars

\* The host of the text checks: the text grows by lines and characters and is
\* deleted, selected from the pointer and the keyboard, the focus on editor 1.
TextHost == [keys |-> {"Return", "A", "Delete", "Left"}, back |-> FALSE, mouse |-> TRUE,
             chars |-> Chars, scales |-> {2}, idents |-> {1}, direct |-> {TRUE}]
NextText == Frame(TextHost)
SpecEdit == InitNative /\ [][NextText]_vars

\* The host of the drawing checks: the display changes its scale factor, the
\* focus moves and text is typed.
RenderHost == [keys |-> {"Left"}, back |-> FALSE, mouse |-> FALSE,
               chars |-> Chars, scales |-> Scales, idents |-> {1, None},
               direct |-> BOOLEAN]
NextRender == Frame(RenderHost)
SpecRender == InitNative /\ [][NextRender]_vars

\* Frames keep running: the schedule runs each system of a frame and the app
\* begins the next frame; the host's writes to ActiveEditor are not owed.
LiveHost == [keys |-> {"Left"}, back |-> FALSE, mouse |-> FALSE,
             chars |-> Chars, scales |-> {2, 4}, idents |-> {1, None},
             direct |-> BOOLEAN]
NextLive == Frame(LiveHost)
\* draw_pixel alone, called on images of every size up to MaxSide
InitPixel ==
    /\ Spawned /\ wasm32 = FALSE
    /\ canvas \in {[width |-> c.width, height |-> c.height, pixels |-> c.pixels,
                     calls |-> 0, call |-> NoCall] : c \in Canvases}
    /\ offsets = NoOffsets
    /\ spawned = NoSpawn
    /\ raster = NoRaster
SpecPixel == InitPixel /\ [][DrawPixelCall]_vars

\* get_y_offset and get_x_offset alone
SpecOffset == InitNative /\ [][GetOffsets]_vars

\* the loop body of cosmic_edit_redraw_buffer alone
SpecRaster == InitNative /\ [][Rasterize]_vars

\* spawn_cosmic_edit and get_cosmic_text alone
SpecText == InitNative /\ [][SpawnWithText]_vars

SpecLive ==
    /\ InitNative /\ [][NextLive]_vars
    /\ WF_vars(BeginFrame(LiveHost))
    /\ WF_vars(CosmicEditBevyEvents(LiveHost))
    /\ WF_vars(CosmicEditRedrawBuffer)
    /\ WF_vars(ActiveEditorChanged)
    /\ WF_vars(ScaleFactorChanged)

\* ------------------------------------------------------------ the checks
\* steps of the four systems
DispatchStep == "events" \notin done /\ "events" \in done'
FocusStep == "active" \notin done /\ "active" \in done'
RedrawStep == "redraw" \notin done /\ "redraw" \in done'
ScaleStep == "scale" \notin done /\ "scale" \in done'

\* the editor has no selection and its cursor is at the end of its buffer
AtRest(ed) == ed.select = NoCursor /\ ed.cursor = EndOf(ed.lines)

\* C1: when ActiveEditor has gone to another editor and the focus system has
\* not handled the change yet, the dispatcher makes no call on that editor
\* unless it already is in the state the transition leaves: no selection and
\* the cursor at the end of the buffer.
C1_FocusedStartsAtRest ==
    [][(DispatchStep /\ disp'.acted
          /\ activeDirty /\ active \in Editors /\ active # previous_editor)
        => AtRest(editors[active])]_vars

\* C2: a focus pass that finds ActiveEditor written again with the identity
\* already recorded changes no editor and keeps the record, so the selection
\* and cursor of the active editor are reset once per activation and what was
\* edited between the confirmations stays.
C2_ReconfirmIsNoOp ==
    [][(FocusStep /\ activeDirty /\ active = previous_editor)
        => (editors' = editors /\ previous_editor' = previous_editor)]_vars

\* C2 witness: the slot was confirmed again for an editor whose cursor or
\* selection had been changed since it took the focus, and the pass has run
C2_Witness ==
    /\ focus = "same" /\ active \in Editors
    /\ ~AtRest(editors[active])

\* C3: when the focus pass finds ActiveEditor changed to an editor other than
\* the recorded identity, that editor ends the pass with no selection, the
\* cursor at the end of the buffer and the redraw flag set.
C3_FocusResets ==
    [][(FocusStep /\ activeDirty /\ active \in Editors /\ active # previous_editor)
        => (/\ editors'[active].select = NoCursor
            /\ editors'[active].cursor.line = Len(editors'[active].lines) - 1
            /\ editors'[active].cursor.index =
                 Len(editors'[active].lines[Len(editors'[active].lines)])
            /\ editors'[active].redraw)]_vars

\* C3 witness: the pass has reset an editor that holds text
C3_Witness ==
    /\ focus = "reset" /\ active \in Editors
    /\ editors[active].lines # << <<>> >>
    /\ AtRest(editors[active])

\* every character event the dispatcher read in this frame became this call
AllTyped(kind) == \A k \in 1..Len(disp.chars) : disp.chars[k].kind = kind

\* C4: while Back is down (pressed in this or an earlier frame and not
\* released in this one), every character event the dispatcher reads for the
\* active editor becomes a Backspace and none an Insert.
C4_HeldBackDeletes == disp.held => AllTyped("Backspace")

\* C5: continuous-delete mode is on only while Back is down: once Back is up
\* the mode is off, and the character events read are inserted.
C5_DeleteModeEndsWithRelease ==
    ~backDown => (~is_deleting /\ AllTyped("Insert"))

\* C6: a character event received in a frame that the dispatcher left early
\* (Enter, select-all, word-jump, pointer press or hold for the active editor)
\* is never read by the dispatcher, in that frame or a later one.
C6_ConsumedFrameDropsChars ==
    /\ (disp.returned \/ disp.pointer # "none") => disp.chars = <<>>
    /\ \A k \in 1..Len(disp.chars) : disp.chars[k].id \notin skipped

\* C6 witness: the events of an earlier frame were consumed, and in this
\* frame the dispatcher has run through on the active editor
C6_Witness ==
    /\ skipped # {} /\ skipped \cap received = {}
    /\ disp.target # None /\ ~disp.returned

\* C7: the dispatch pass changes no editor but the one ActiveEditor names,
\* and none when it names no editor.
C7_OnlyActiveEdited ==
    [][DispatchStep => \A e \in Editors : e # active => editors'[e] = editors[e]]_vars

\* C7 witness: the dispatcher has changed the text of the active editor
C7_Witness ==
    /\ disp.target = 1 /\ disp.acted /\ "redraw" \notin done
    /\ editors[1].lines # SpawnText(1)

\* C8: on a scale-factor notification every editor ends the scale pass with
\* metrics = its base font size and line height times the new factor, size =
\* its node's size times the new factor, and the redraw flag set; an editor
\* that held the values of factor 1 holds twice these values at factor 2.
C8_ScaleRescalesAll ==
    [][(ScaleStep /\ scaleEv) =>
        \A e \in Editors :
            LET old == editors[e]
                new == editors'[e]
            IN  /\ new.metrics.font_size = FontSize(e) * windowScale
                /\ new.metrics.line_height = FontLineHeight(e) * windowScale
                /\ new.size.w = NodeSize(e).x * windowScale
                /\ new.size.h = NodeSize(e).y * windowScale
                /\ new.redraw
                /\ (windowScale = 4 /\ old.metrics.font_size = 2 * FontSize(e)
                      /\ old.metrics.line_height = 2 * FontLineHeight(e))
                    => (/\ new.metrics.font_size = 2 * old.metrics.font_size
                        /\ new.metrics.line_height = 2 * old.metrics.line_height)
                /\ (windowScale = 4 /\ old.size.w = 2 * NodeSize(e).x
                      /\ old.size.h = 2 * NodeSize(e).y)
                    => (new.size.w = 2 * old.size.w /\ new.size.h = 2 * old.size.h)]_vars

\* C8 witness: the scale pass of a frame that went to factor 2 has run, after
\* an earlier frame had drawn editor 1 at another factor
C8_Witness ==
    /\ "scale" \in done /\ "redraw" \notin done /\ windowScale = 4
    /\ pix[1] # NoImage /\ pix[1].w # Max((NodeSize(1).x * 4) \div 2, 1)
    /\ \A e \in Editors : editors[e].metrics.font_size = 4 * FontSize(e)
                            /\ editors[e].redraw

\* C9: the redraw flag of an editor goes from set to clear only in a step of
\* the rasterization pass that has made the editor's pixel buffer.
C9_OnlyRasterClearsRedraw ==
    [][\A e \in Editors :
         (editors[e].redraw /\ ~editors'[e].redraw)
           => (RedrawStep /\ e \in drawn' /\ pix'[e] # NoImage)]_vars

\* C9 witness: the flag of editor 1, set by a focus transition in this frame,
\* has been cleared by the rasterization pass
C9_Witness ==
    /\ focus = "reset" /\ active = 1 /\ 1 \in drawn /\ ~editors[1].redraw

\* C10: the rasterization pass gives no new pixel buffer to an editor whose
\* redraw flag is clear and whose layout is current: it leaves the editor, its
\* flag and its image as they are; and a pass without input, scale
\* notification or focus change touches no editor and no image.
C10_DrawsOnlyWhenMarked ==
    /\ [][RedrawStep =>
            \A e \in Editors :
                (~editors[e].redraw /\ ~editors[e].stale)
                  => (e \notin drawn' /\ pix'[e] = pix[e] /\ editors'[e] = editors[e])]_vars
    /\ [][(\/ (DispatchStep /\ ~disp'.acted)
           \/ (ScaleStep /\ ~scaleEv)
           \/ (FocusStep /\ ~(activeDirty /\ active # previous_editor)))
          => (editors' = editors /\ pix' = pix)]_vars

\* C10 witness: a whole frame without input, scale notification or focus
\* change has passed over editors drawn before; nothing was drawn
C10_Witness ==
    /\ done = Systems /\ drawn = {} /\ ~disp.acted /\ focus = "quiet"
    /\ \A e \in Editors : pix[e] # NoImage /\ ~editors[e].redraw

\* C11: when every system of a frame has run, a change the dispatcher made to
\* the text of the active editor in that frame has been shaped and drawn by
\* that frame's rasterization pass: the editor's layout is not left stale.
C11_EditDrawnSameFrame ==
    (done = Systems /\ disp.target \in Editors) => ~editors[disp.target].stale

\* C12: while frames keep running, an editor whose redraw flag is set is
\* eventually drawn by a rasterization pass that leaves the flag clear.
C12_RedrawEventuallyDone ==
    \A e \in Editors :
        editors[e].redraw ~> (e \in drawn /\ pix[e] # NoImage /\ ~editors[e].redraw)

\* C12 witness: the flag the dispatcher's edit of this frame set on editor 1
\* has been cleared by the pass that drew it
C12_Witness ==
    /\ disp.target = 1 /\ disp.acted /\ editors[1].lines # SpawnText(1)
    /\ 1 \in drawn /\ ~editors[1].redraw /\ ~editors[1].stale

\* --------------------------------------------------- checks of draw_pixel
\* the last call of draw_pixel: its colour as the bytes of 0xAARRGGBB, whether
\* its coordinate lies in the image, the offset of its pixel, and a pixel of a
\* buffer as its stored bytes (R, G, B, A)
Called == canvas.calls > 0
SrcA == canvas.call.color.hi \div 256
SrcR == canvas.call.color.hi % 256
SrcG == canvas.call.color.lo \div 256
SrcB == canvas.call.color.lo % 256
InImage ==
    /\ 0 <= canvas.call.x /\ canvas.call.x < canvas.width
    /\ 0 <= canvas.call.y /\ canvas.call.y < canvas.height
PixelOffset == (canvas.call.y * canvas.width + canvas.call.x) * 4
PixelAt(buffer) == <<buffer[PixelOffset + 1], buffer[PixelOffset + 2],
                     buffer[PixelOffset + 3], buffer[PixelOffset + 4]>>

\* C13: after a call in bounds with alpha 255, or with a non-zero alpha on a
\* pixel whose four bytes were zero, the pixel holds the bytes (R, G, B, A) of
\* the colour.
C13_ReplaceStoresSource ==
    (/\ Called /\ InImage
     /\ \/ SrcA = 255
        \/ SrcA # 0 /\ PixelAt(canvas.call.before) = <<0, 0, 0, 0>>)
    => PixelAt(canvas.pixels) = <<SrcR, SrcG, SrcB, SrcA>>

\* C13 witness: a half-transparent colour was drawn on an empty pixel
C13_Witness ==
    /\ Called /\ InImage /\ SrcA = 128 /\ SrcR = 200
    /\ PixelAt(canvas.call.before) = <<0, 0, 0, 0>>
    /\ PixelAt(canvas.pixels) = <<200, 100, 50, 128>>

\* C14: a call with a colour of alpha 0 leaves every byte of the buffer as it
\* was, at any coordinate.
C14_TransparentIsNoOp ==
    (Called /\ SrcA = 0) =>
        (canvas.pixels = canvas.call.before /\ canvas.call.touched = {})

\* C14 witness: a transparent colour was drawn in bounds on a pixel that
\* differs from it
C14_Witness ==
    /\ Called /\ SrcA = 0 /\ SrcR = 255 /\ InImage
    /\ PixelAt(canvas.pixels) = <<10, 200, 30, 128>>

\* C15: a call at a coordinate outside the image leaves the buffer as it was
\* and reads and writes no byte, inside the buffer or beyond it.
C15_OutOfBoundsClipped ==
    (Called /\ ~InImage) =>
        /\ canvas.pixels = canvas.call.before
        /\ canvas.call.touched = {}
        /\ ~canvas.call.panic

\* C15 witness: an opaque colour was drawn at x = width on the first of two
\* rows, where the unclipped offset would be the first pixel of the next row
C15_Witness ==
    /\ Called /\ SrcA = 255 /\ canvas.height = 2
    /\ canvas.call.x = canvas.width /\ canvas.call.y = 0
    /\ PixelAt(canvas.pixels) # <<SrcR, SrcG, SrcB, SrcA>>

\* C16: after a call in bounds with 1 <= alpha <= 254 on a pixel that was not
\* all zero, the pixel holds the packed value (rb & 0x00FF00FF) |
\* (ag & 0xFF00FF00) of the claim, here computed channel by channel: with
\* n = 255 - a, the low halves n*Db + a*Cb and n*Dg + a*Cg stay below 2^16, so
\* R = (n*Dr + a*Cr) >> 8, B = (n*Db + a*Cb) >> 8, G = (n*Dg + a*Cg) >> 8 and
\* A = (n*Da + 256*a) >> 8, each cut to a byte.
C16_BlendIsPackedFormula ==
    (/\ Called /\ InImage /\ 1 <= SrcA /\ SrcA <= 254
     /\ PixelAt(canvas.call.before) # <<0, 0, 0, 0>>)
    => LET d == PixelAt(canvas.call.before)
           n == 255 - SrcA
       IN  PixelAt(canvas.pixels) =
             << ((n * d[1] + SrcA * SrcR) \div 256) % 256,
                ((n * d[2] + SrcA * SrcG) \div 256) % 256,
                ((n * d[3] + SrcA * SrcB) \div 256) % 256,
                ((n * d[4] + 256 * SrcA) \div 256) % 256 >>

\* C16 witness: a half-transparent colour was blended with a coloured pixel
C16_Witness ==
    /\ Called /\ InImage /\ SrcA = 128 /\ SrcR = 200
    /\ PixelAt(canvas.call.before) = <<10, 200, 30, 128>>
    /\ PixelAt(canvas.pixels) = <<104, 149, 39, 191>>

\* C17: for a Center editor the vertical offset is (surface height - line
\* height * min(visible lines, line count)) / 2 and the horizontal offset is
\* (surface width - min(widest shaped line, surface width)) / 2, each
\* truncated to an integer, the horizontal one between 0 and the surface
\* width; for TopLeft both are 0. (The surface and the widths are in half
\* pixels here, so the quotient by 2 is a quotient by 4.)
C17_CenterOffsets ==
    LET e == offsets.editor
        widest == MaxLineWidth(e.layout)
        shown == Min(TruncDiv(e.size.h, e.metrics.line_height), Len(e.lines))
    IN  offsets.calls > 0 =>
          IF offsets.text_pos = "Center"
          THEN /\ offsets.y = TruncDiv(e.size.h - e.metrics.line_height * shown, 4)
               /\ offsets.x = TruncDiv(e.size.w - Min(widest, e.size.w), 4)
               /\ 0 <= offsets.x /\ 2 * offsets.x <= e.size.w
          ELSE offsets.y = 0 /\ offsets.x = 0

\* C18: an editor spawned with the text join(lines, "\n") has exactly these
\* lines in its buffer, empty lines and an empty last line included, and
\* get_cosmic_text on it returns the joined text.
C18_TextRoundTrip ==
    spawned.calls = 1 =>
        /\ spawned.editor.lines = spawned.given
        /\ spawned.read = spawned.text

\* C19: whatever passes have run since the editors were spawned, every
\* editor's buffer has at least one line, its cursor is on a line of the buffer
\* and at most at that line's length, and so is its selection anchor when it
\* has one.
C19_CursorInBuffer ==
    \A e \in Editors :
        /\ Len(editors[e].lines) >= 1
        /\ ValidCursor(editors[e].lines, editors[e].cursor)
        /\ editors[e].select # NoCursor => ValidCursor(editors[e].lines, editors[e].select)

\* the whole text was deleted, then all is selected: the anchor (0, 0) and
\* the cursor are on the one empty line left
C19_Witness ==
    /\ "events" \in done /\ disp.target = 1 /\ disp.cmd /\ "A" \in disp.jp
    /\ editors[1].lines = << <<>> >>
    /\ editors[1].select = Cur(0, 0)
    /\ editors[1].cursor = Cur(0, 0)

\* C20: a dispatch pass that finds the command modifier held and "A" just
\* pressed, and Enter not pressed, leaves the active editor with its cursor at
\* the end of the buffer and its selection anchor at line 0, index 0.
C20_SelectAll ==
    [][(DispatchStep /\ disp'.target \in Editors /\ disp'.cmd /\ "A" \in disp'.jp
          /\ "Return" \notin disp'.jp)
        => /\ editors'[disp'.target].cursor = EndOf(editors'[disp'.target].lines)
           /\ editors'[disp'.target].select = Cur(0, 0)]_vars

\* all of a text of two lines is selected, the cursor on the second line
C20_Witness ==
    /\ "events" \in done /\ disp.target = 1 /\ disp.cmd /\ "A" \in disp.jp
    /\ Len(editors[1].lines) = 2
    /\ editors[1].cursor = Cur(1, Len(editors[1].lines[2]))
    /\ editors[1].cursor # Cur(1, 0)
    /\ editors[1].select = Cur(0, 0)

\* the window's cursor position pos is present and strictly inside the
\* rectangle of e's node (half pixels)
InsideNode(pos, e) ==
    /\ pos # NoPoint
    /\ Translation(e).x - NodeSize(e).x < pos.x
    /\ pos.x < Translation(e).x + NodeSize(e).x
    /\ 2 * WindowHeight - Translation(e).y - NodeSize(e).y < pos.y
    /\ pos.y < 2 * WindowHeight - Translation(e).y + NodeSize(e).y

\* C21: a dispatch pass that finds the button just pressed or held while the
\* pointer is absent or not strictly inside the active editor's rectangle
\* makes no Click and no Drag, and with no key pressed it leaves cursor,
\* selection and text as they were; when the pointer is inside, the local
\* coordinate lies strictly between 0 and the node's width and height.
C21_MissIsNoHit ==
    [][(DispatchStep /\ disp'.target \in Editors /\ mouseDown')
        => IF InsideNode(disp'.at, disp'.target)
           THEN LET p == GetNodeCursorPos(disp'.at, disp'.target)
                IN  /\ 0 < p.x /\ p.x < 2 * NodeSize(disp'.target).x
                    /\ 0 < p.y /\ p.y < 2 * NodeSize(disp'.target).y
           ELSE /\ disp'.pointer = "none"
                /\ disp'.jp = {} =>
                      TextOf(editors'[disp'.target]) = TextOf(editors[disp'.target])]_vars

\* the button is down with the pointer on the left edge of editor 1: no call
\* was made and the selection made before is still there
C21_Witness ==
    /\ "events" \in done /\ disp.target = 1 /\ mouseDown
    /\ disp.at = [x |-> 2, y |-> 4] /\ disp.jp = {}
    /\ disp.pointer = "none" /\ ~disp.acted
    /\ editors[1].select # NoCursor

\* the text t after n calls of Action::Backspace
RECURSIVE Backspaces(_, _)
Backspaces(t, n) == IF n = 0 THEN t ELSE Backspaces(ActionBackspace(t), n - 1)

\* the dispatch pass finds Back just pressed, and not released, on an editor
BackPressStep ==
    DispatchStep /\ disp'.target \in Editors /\ ~backDown /\ backDown'

\* C22: in the frame in which Back is just pressed the dispatcher applies one
\* backward deletion for the key press itself (besides one for each character
\* event it reads) and continuous-delete mode is entered.
C22_PressDeletes ==
    [][BackPressStep
        => /\ is_deleting'
           /\ TextOf(editors'[disp'.target]) =
                 Backspaces(TextOf(editors[disp'.target]), 1 + Len(disp'.chars))]_vars

\* C22 as amended: continuous-delete mode is entered; the key press itself
\* becomes one backward deletion in the build for wasm32 and none in the
\* others, where only the character events read in the frame delete.
C22_PressEntersDeleteMode ==
    [][BackPressStep
        => /\ is_deleting'
           /\ TextOf(editors'[disp'.target]) =
                 Backspaces(TextOf(editors[disp'.target]),
                            (IF wasm32 THEN 1 ELSE 0) + Len(disp'.chars))]_vars

\* wasm32: Back is down, no character event was ever sent, and the one
\* character of editor 1 is deleted
C22_Witness ==
    /\ wasm32 /\ events.count = 0
    /\ "events" \in done /\ disp.target = 1 /\ disp.acted
    /\ backDown /\ is_deleting
    /\ editors[1].lines = << <<>> >>

\* C23: a dispatch pass that finds command and option held and Left (Right)
\* just pressed leaves the active editor as one Action::PreviousWord
\* (Action::NextWord) leaves the editor it found: no other cursor movement is
\* applied for the key press.
C23_WordJumpOnly ==
    [][(DispatchStep /\ disp'.target \in Editors /\ disp'.cmd /\ disp'.opt)
        => /\ disp'.jp = {"Left"} =>
                TextOf(editors'[disp'.target]) =
                    ActionPreviousWord(TextOf(editors[disp'.target]))
           /\ disp'.jp = {"Right"} =>
                TextOf(editors'[disp'.target]) =
                    ActionNextWord(TextOf(editors[disp'.target]))]_vars

C26_MissKeepsChars ==
    [][(DispatchStep /\ disp'.target \in Editors /\ mouseDown'
          /\ ~InsideNode(disp'.at, disp'.target)
          /\ "Return" \notin disp'.jp
          /\ ~(disp'.cmd /\ disp'.jp \cap {"A"} # {})
          /\ ~(disp'.cmd /\ disp'.opt /\ disp'.jp \cap {"Left", "Right"} # {}))
        => \A id \in received :
              \E k \in 1..Len(disp'.chars) : disp'.chars[k].id = id]_vars

\* C27: in a call that blends (1 <= alpha <= 254 on a pixel that is not all
\* zero) neither sum reaches 2^32 and no lane carries into the one above it:
\* with n = 255 - a the upper and lower 16 bits of the red-blue sum are
\* n*Dr + a*Cr and n*Db + a*Cb, those of the alpha-green sum n*Da + 256*a and
\* n*Dg + a*Cg, and the alpha stored is (n*Da + 256*a) >> 8.
C27_BlendKeepsLanes ==
    (/\ Called /\ InImage /\ 1 <= SrcA /\ SrcA <= 254
     /\ PixelAt(canvas.call.before) # <<0, 0, 0, 0>>)
    => LET d == PixelAt(canvas.call.before)
           n == 255 - SrcA
           rb == canvas.call.sums.rb
           ag == canvas.call.sums.ag
       IN  /\ rb.hi < 65536 /\ ag.hi < 65536
           /\ rb.hi = n * d[1] + SrcA * SrcR
           /\ rb.lo = n * d[3] + SrcA * SrcB
           /\ ag.hi = n * d[4] + 256 * SrcA
           /\ ag.lo = n * d[2] + SrcA * SrcG
           /\ PixelAt(canvas.pixels)[4] = (n * d[4] + 256 * SrcA) \div 256

\* C27 witness: alpha 254 was blended with a white opaque pixel, where the
\* lanes are largest: the alpha lane is 255 + 254 * 256
C27_Witness ==
    /\ Called /\ InImage /\ SrcA = 254 /\ SrcR = 255
    /\ PixelAt(canvas.call.before) = <<255, 255, 255, 255>>
    /\ canvas.call.sums.ag.hi = 65279
    /\ canvas.call.sums.rb.hi = 65025
    /\ PixelAt(canvas.pixels) = <<254, 254, 254, 254>>

\* C28: a call at a coordinate (x, y) inside the image leaves the buffer its
\* length and changes no byte but the four at (y * width + x) * 4 and the
\* three behind it.
C28_OnePixelWritten ==
    (Called /\ InImage) =>
        /\ Len(canvas.pixels) = Len(canvas.call.before)
        /\ \A i \in 1..Len(canvas.pixels) :
              i \notin (PixelOffset + 1)..(PixelOffset + 4)
                => canvas.pixels[i] = canvas.call.before[i]

\* C28 witness: an opaque colour was drawn on the second pixel of the first
\* row of a 2 x 2 image; the pixel changed, the three others did not
C28_Witness ==
    /\ Called /\ InImage /\ SrcA = 255 /\ canvas.calls = 1
    /\ canvas.width = 2 /\ canvas.height = 2
    /\ canvas.call.x = 1 /\ canvas.call.y = 0
    /\ PixelAt(canvas.pixels) # PixelAt(canvas.call.before)
    /\ SubSeq(canvas.pixels, 1, 4) = SubSeq(canvas.call.before, 1, 4)
    /\ SubSeq(canvas.pixels, 9, 16) = SubSeq(canvas.call.before, 9, 16)

\* C29: a focus pass changes no editor but the one ActiveEditor names (none
\* when it names no editor), and after every focus pass the recorded
\* identity is the one ActiveEditor holds.
C29_FocusTouchesOnlyActive ==
    [][FocusStep
        => /\ \A e \in Editors : e # active => editors'[e] = editors[e]
           /\ previous_editor' = active']_vars

\* the focus went from editor 1, whose text was all selected, to editor 2:
\* editor 1 still has its selection and its cursor, editor 2 is recorded
C29_Witness ==
    /\ focus = "reset" /\ active = 2 /\ previous_editor = 2
    /\ editors[1].select = Cur(0, 0) /\ editors[1].cursor = Cur(0, 1)

\* C25: the image made for an editor has width max(trunc(node width * scale
\* factor), 1) and height likewise, width * height * 4 bytes, every byte of a
\* pixel outside the span drawn is 0, and the editor's Buffer has the size
\* (width, height) after the pass, whatever size it held before.
C25_ImageOfNodeSize ==
    raster.calls = 1 =>
        LET n == NodeSize(raster.e)
            s == raster.span
            Covered(px, py) ==
                /\ s.x + s.offset_x <= px /\ px < s.x + s.offset_x + s.w
                /\ s.y + s.offset_y <= py /\ py < s.y + s.offset_y + s.h
        IN  /\ raster.width = Max((n.x * raster.scale) \div 2, 1)
            /\ raster.height = Max((n.y * raster.scale) \div 2, 1)
            /\ Len(raster.pixels) = raster.width * raster.height * 4
            /\ \A px \in 0..(raster.width - 1), py \in 0..(raster.height - 1) :
                  ~Covered(px, py) =>
                     \A b \in 1..4 :
                        raster.pixels[(py * raster.width + px) * 4 + b] = 0
            /\ raster.editor.size = [w |-> 2 * raster.width, h |-> 2 * raster.height]
            /\ ~raster.editor.redraw

\* C25 witness: the editor whose node has no extent, after a scale pass that
\* stored the size (0, 0), got an image of 1 x 1 pixel, and the opaque span
\* on it was drawn
C25_Witness ==
    /\ raster.calls = 1 /\ raster.e = 2 /\ raster.stored = [w |-> 0, h |-> 0]
    /\ raster.width = 1 /\ raster.height = 1
    /\ raster.pixels = <<0, 0, 0, 255>>
    /\ raster.editor.size = [w |-> 2, h |-> 2]

====
